---- MODULE Spec2Model ----
(***************************************************************************)
(* A model of minisci/preprocess.py: the batch job that reads the reaction *)
(* table, builds the six condition vocabularies, featurizes every unique   *)
(* reactant under five seeds and writes three HDF5 containers, and of      *)
(* get_3dG_from_smi, its per-molecule featurizer.                          *)
(*                                                                         *)
(* A string cell is held as the sequence of its '/'-separated parts        *)
(* ("C/C=C" is <<"C", "C=C">>): h5py reads a group name as a path, so this *)
(* is what create_group sees.  An empty cell, which pandas reads as the    *)
(* float NaN, is <<>>.                                                     *)
(***************************************************************************)
EXTENDS Integers, Sequences, FiniteSets, TLC

\* Bounds of the model: the rows of a table, and the atoms and bonds of a
\* molecule handed to the featurizer.
MaxRows == 2

MaxAtoms == 3

MaxBonds == 2

Range(s) == {s[i] : i \in DOMAIN s}

\* The columns the script extracts from the table (lines 103-134).
RequiredColumns ==
    {"rxn_id", "temperature_deg_c", "time_h", "atmosphere", "scale_umol",
     "concentration_mmol_l", "startingmat_1_smiles", "startingmat_2_smiles",
     "startingmat_2_eq", "reagent_1_smiles", "reagent_1_eq",
     "catalyst_1_smiles", "catalyst_1_eq", "additive_1_smiles",
     "additive_1_eq", "solvent_1_smiles", "solvent_1_fraction",
     "solvent_2_smiles", "solvent_2_fraction", "product_mono", "product_di",
     "product_non", "binary"}

\* The columns passed through [str(x) for x in ...].
StrColumns ==
    {"atmosphere", "startingmat_1_smiles", "startingmat_2_smiles",
     "reagent_1_smiles", "catalyst_1_smiles", "additive_1_smiles",
     "solvent_1_smiles", "solvent_2_smiles"}

\* An empty cell of the table: pandas yields float('nan').
NaN == <<>>

\* str(x) of a cell: the text itself, and "nan" for the float NaN.
str(x) == IF x = NaN THEN <<"nan">> ELSE x

\* get_dict_for_embedding(list), of minisci/utils.py: every distinct value of
\* the list gets the next integer id, from 0, in first-seen order.
RECURSIVE dict_loop(_, _, _)
dict_loop(list, i, list_dict) ==
    IF i > Len(list) THEN list_dict
    ELSE IF list[i] \in DOMAIN list_dict
         THEN dict_loop(list, i + 1, list_dict)
         ELSE dict_loop(list, i + 1,
                  [v \in DOMAIN list_dict \cup {list[i]} |->
                      IF v = list[i] THEN Cardinality(DOMAIN list_dict)
                      ELSE list_dict[v]])

get_dict_for_embedding(list) == dict_loop(list, 1, <<>>)

\* The tuple get_3dG_from_smi returns, in order (lines 87-96), under the
\* names the callers give its parts.
Outputs ==
    <<"atom_id", "ring_id", "hybr_id", "arom_id", "edge_2d", "edge_3d",
      "crds_3d", "to_keep">>

(***************************************************************************)
(* The toolkit as the script sees it.  Chem.MolFromSmiles returns None for *)
(* text that is no SMILES ("nan", the str of an empty cell) and AddHs then *)
(* raises; EmbedMolecule returns -1 when it finds no conformer and         *)
(* UFFOptimizeMolecule then raises.  Which molecules embed under which     *)
(* seed is the toolkit's business: one acid of the input pool is taken to  *)
(* fail under seed 0xF00C.                                                 *)
(***************************************************************************)
Crowded == <<"CC(C)(C)C(C(C)(C)C)(C(C)(C)C)C(=O)O">>

MolFromSmiles(smi) == IF smi = <<"nan">> THEN "None" ELSE "mol"

EmbedMolecule(smi, randomSeed) ==
    IF smi = Crowded /\ randomSeed = 61452 THEN -1 ELSE 0

\* What a call get_3dG_from_smi(smi, randomSeed) ends in (lines 33-44).
Raises(smi, randomSeed) ==
    IF MolFromSmiles(smi) = "None" THEN "ParseError"
    ELSE IF EmbedMolecule(smi, randomSeed) = -1 THEN "EmbeddingError"
    ELSE "none"

\* The eight arrays a successful call returns, each named by the call that
\* computed it and its place in the returned tuple.
get_3dG_from_smi(smi, randomSeed) ==
    [f \in 1..Len(Outputs) |->
        [smi |-> smi, seed |-> randomSeed, out |-> Outputs[f]]]

\* get_fp_from_smi(smi): the fingerprint of smi, or the parse error.
get_fp_from_smi(smi) == [fp |-> smi, num |-> 0]

\* A number as a dataset's data.
Num(n) == [fp |-> <<>>, num |-> n]

(***************************************************************************)
(* The input tables the model draws from: up to MaxRows rows, each a       *)
(* reaction id, a pair of reactant cells and one of two sets of conditions.*)
(***************************************************************************)
RxnIdCells == {<<"r1">>, <<"r1", "x">>, <<"r2">>}

\* The two reactant cells of a row: a plain substrate, one whose SMILES
\* holds '/' bonds, an empty cell, and an acid that fails to embed.
ReactantCells ==
    { <<<<"C">>, <<"CC(=O)O">>>>,
      <<<<"C", "C=C", "C">>, <<"CC(=O)O">>>>,
      <<NaN, <<"CC(=O)O">>>>,
      <<<<"C">>, Crowded>> }

CondCells ==
    { [reagent_1_smiles |-> <<"O=S(=O)(O)O">>, solvent_1_smiles |-> <<"O">>,
       solvent_2_smiles |-> NaN, catalyst_1_smiles |-> <<"[Ag+]">>,
       additive_1_smiles |-> NaN, atmosphere |-> <<"air">>,
       temperature_deg_c |-> 40, time_h |-> 12, scale_umol |-> 100,
       concentration_mmol_l |-> 50, startingmat_2_eq |-> 10,
       reagent_1_eq |-> 3, catalyst_1_eq |-> 1, additive_1_eq |-> 0,
       solvent_1_fraction |-> 1, solvent_2_fraction |-> 0,
       product_mono |-> 5, product_di |-> 2, product_non |-> 3, binary |-> 1],
      [reagent_1_smiles |-> <<"OO">>, solvent_1_smiles |-> <<"O">>,
       solvent_2_smiles |-> <<"CC#N">>, catalyst_1_smiles |-> NaN,
       additive_1_smiles |-> <<"OC(=O)C(F)(F)F">>, atmosphere |-> NaN,
       temperature_deg_c |-> 25, time_h |-> 2, scale_umol |-> 100,
       concentration_mmol_l |-> 20, startingmat_2_eq |-> 5,
       reagent_1_eq |-> 2, catalyst_1_eq |-> 0, additive_1_eq |-> 1,
       solvent_1_fraction |-> 1, solvent_2_fraction |-> 1,
       product_mono |-> 0, product_di |-> 0, product_non |-> 10, binary |-> 0] }

Row(id, sm, c) ==
    [col \in RequiredColumns |->
        CASE col = "rxn_id" -> id
          [] col = "startingmat_1_smiles" -> sm[1]
          [] col = "startingmat_2_smiles" -> sm[2]
          [] OTHER -> c[col]]

Rows == {Row(id, sm, c) : id \in RxnIdCells, sm \in ReactantCells, c \in CondCells}

Tables == UNION {[1..n -> Rows] : n \in 0..MaxRows}

\* The tables' headers: every required column, or all but one of them.
Headers == {RequiredColumns} \cup {RequiredColumns \ {c} : c \in RequiredColumns}

\* The orders list(set(xs)) may give: a set's iteration order is unspecified.
ListOfSet(S) ==
    {o \in [1..Cardinality(S) -> S] : \A i, j \in DOMAIN o : o[i] = o[j] => i = j}

(***************************************************************************)
(* An h5py file: whether it exists on disk, and its groups by path, each   *)
(* with the datasets <<name, data>> created in it, in order.               *)
(***************************************************************************)
NoFile == [exists |-> FALSE, groups |-> <<>>]

\* h5py.File(name, "w"): the file is created, or truncated.
NewFile == [exists |-> TRUE, groups |-> <<>>]

Prefixes(path) == {SubSeq(path, 1, n) : n \in 1..Len(path)}

\* The names of the datasets of a group.
Names(file, path) == {file.groups[path][k][1] : k \in DOMAIN file.groups[path]}

IsDataset(file, path) ==
    /\ Len(path) > 1
    /\ SubSeq(path, 1, Len(path) - 1) \in DOMAIN file.groups
    /\ path[Len(path)] \in Names(file, SubSeq(path, 1, Len(path) - 1))

\* Whether file.create_group(path) raises ValueError: a link of that name
\* exists already, or the path runs through a dataset.
NameExists(file, path) ==
    \/ path \in DOMAIN file.groups
    \/ \E q \in Prefixes(path) : IsDataset(file, q)

\* file.create_group(path): the group and the groups on the way to it that do
\* not exist yet (h5py creates intermediate groups).
create_group(file, path) ==
    [file EXCEPT !.groups =
        [g \in DOMAIN @ \cup Prefixes(path) |->
            IF g \in DOMAIN @ THEN @[g] ELSE <<>>]]

\* file[path].create_dataset(name, data=data), for each <<name, data>> of
\* writes in turn.
create_datasets(file, path, writes) ==
    [file EXCEPT !.groups[path] = @ \o writes]

(***************************************************************************)
(* The substrate and acid loop bodies, as unrolled in the source: the seed *)
(* of each of the five call sites in order, the variable each part of each *)
(* call's result is bound to, and the datasets written from them.          *)
(***************************************************************************)
SubstrateCalls == <<61450, 61451, 61452, 61453, 61454>>

SubstrateVars(smi) ==
    LET a == get_3dG_from_smi(smi, SubstrateCalls[1])
        b == get_3dG_from_smi(smi, SubstrateCalls[2])
        c == get_3dG_from_smi(smi, SubstrateCalls[3])
        d == get_3dG_from_smi(smi, SubstrateCalls[4])
        e == get_3dG_from_smi(smi, SubstrateCalls[5])
    IN  [atom_id_1_a |-> a[1],
         ring_id_1_a |-> a[2],
         hybr_id_1_a |-> a[3],
         arom_id_1_a |-> a[4],
         edge_2d_1_a |-> a[5],
         edge_3d_1_a |-> a[6],
         crds_3d_1_a |-> a[7],
         to_keep_1_a |-> a[8],
         atom_id_1_b |-> b[1],
         ring_id_1_b |-> b[2],
         hybr_id_1_b |-> b[3],
         arom_id_1_b |-> b[4],
         edge_2d_1_b |-> b[5],
         edge_3d_1_b |-> b[6],
         crds_3d_1_b |-> b[7],
         to_keep_1_b |-> b[8],
         atom_id_1_c |-> c[1],
         ring_id_1_c |-> c[2],
         hybr_id_1_c |-> c[3],
         arom_id_1_c |-> c[4],
         edge_2d_1_c |-> c[5],
         edge_3d_1_c |-> c[6],
         crds_3d_1_c |-> c[7],
         to_keep_1_c |-> c[8],
         atom_id_1_d |-> d[1],
         ring_id_1_d |-> d[2],
         hybr_id_1_d |-> d[3],
         arom_id_1_d |-> d[4],
         edge_2d_1_d |-> d[5],
         edge_3d_1_d |-> d[6],
         crds_3d_1_d |-> d[7],
         to_keep_1_d |-> d[8],
         atom_id_1_e |-> e[1],
         ring_id_1_e |-> e[2],
         hybr_id_1_e |-> e[3],
         arom_id_1_e |-> e[4],
         edge_2d_1_e |-> e[5],
         edge_3d_1_e |-> e[6],
         crds_3d_1_e |-> e[7],
         to_keep_1_e |-> e[8]]

\* SubstrateWrites with one dataset written from the wrong call's variable.
SubstrateWritesSlip(smi) ==
    LET v == SubstrateVars(smi)
    IN  <<<<"atom_id_1_a", v.atom_id_1_a>>,
          <<"ring_id_1_a", v.ring_id_1_a>>,
          <<"hybr_id_1_a", v.hybr_id_1_a>>,
          <<"arom_id_1_a", v.arom_id_1_a>>,
          <<"edge_2d_1_a", v.edge_2d_1_a>>,
          <<"edge_3d_1_a", v.edge_3d_1_a>>,
          <<"crds_3d_1_a", v.crds_3d_1_a>>,
          <<"to_keep_1_a", v.to_keep_1_a>>,
          <<"atom_id_1_b", v.atom_id_1_b>>,
          <<"ring_id_1_b", v.ring_id_1_b>>,
          <<"hybr_id_1_b", v.hybr_id_1_b>>,
          <<"arom_id_1_b", v.arom_id_1_b>>,
          <<"edge_2d_1_b", v.edge_2d_1_b>>,
          <<"edge_3d_1_b", v.edge_3d_1_a>>,
          <<"crds_3d_1_b", v.crds_3d_1_b>>,
          <<"to_keep_1_b", v.to_keep_1_b>>,
          <<"atom_id_1_c", v.atom_id_1_c>>,
          <<"ring_id_1_c", v.ring_id_1_c>>,
          <<"hybr_id_1_c", v.hybr_id_1_c>>,
          <<"arom_id_1_c", v.arom_id_1_c>>,
          <<"edge_2d_1_c", v.edge_2d_1_c>>,
          <<"edge_3d_1_c", v.edge_3d_1_c>>,
          <<"crds_3d_1_c", v.crds_3d_1_c>>,
          <<"to_keep_1_c", v.to_keep_1_c>>,
          <<"atom_id_1_d", v.atom_id_1_d>>,
          <<"ring_id_1_d", v.ring_id_1_d>>,
          <<"hybr_id_1_d", v.hybr_id_1_d>>,
          <<"arom_id_1_d", v.arom_id_1_d>>,
          <<"edge_2d_1_d", v.edge_2d_1_d>>,
          <<"edge_3d_1_d", v.edge_3d_1_d>>,
          <<"crds_3d_1_d", v.crds_3d_1_d>>,
          <<"to_keep_1_d", v.to_keep_1_d>>,
          <<"atom_id_1_e", v.atom_id_1_e>>,
          <<"ring_id_1_e", v.ring_id_1_e>>,
          <<"hybr_id_1_e", v.hybr_id_1_e>>,
          <<"arom_id_1_e", v.arom_id_1_e>>,
          <<"edge_2d_1_e", v.edge_2d_1_e>>,
          <<"edge_3d_1_e", v.edge_3d_1_e>>,
          <<"crds_3d_1_e", v.crds_3d_1_e>>,
          <<"to_keep_1_e", v.to_keep_1_e>>>>

SubstrateWrites(smi) ==
    LET v == SubstrateVars(smi)
    IN  <<<<"atom_id_1_a", v.atom_id_1_a>>,
          <<"ring_id_1_a", v.ring_id_1_a>>,
          <<"hybr_id_1_a", v.hybr_id_1_a>>,
          <<"arom_id_1_a", v.arom_id_1_a>>,
          <<"edge_2d_1_a", v.edge_2d_1_a>>,
          <<"edge_3d_1_a", v.edge_3d_1_a>>,
          <<"crds_3d_1_a", v.crds_3d_1_a>>,
          <<"to_keep_1_a", v.to_keep_1_a>>,
          <<"atom_id_1_b", v.atom_id_1_b>>,
          <<"ring_id_1_b", v.ring_id_1_b>>,
          <<"hybr_id_1_b", v.hybr_id_1_b>>,
          <<"arom_id_1_b", v.arom_id_1_b>>,
          <<"edge_2d_1_b", v.edge_2d_1_b>>,
          <<"edge_3d_1_b", v.edge_3d_1_b>>,
          <<"crds_3d_1_b", v.crds_3d_1_b>>,
          <<"to_keep_1_b", v.to_keep_1_b>>,
          <<"atom_id_1_c", v.atom_id_1_c>>,
          <<"ring_id_1_c", v.ring_id_1_c>>,
          <<"hybr_id_1_c", v.hybr_id_1_c>>,
          <<"arom_id_1_c", v.arom_id_1_c>>,
          <<"edge_2d_1_c", v.edge_2d_1_c>>,
          <<"edge_3d_1_c", v.edge_3d_1_c>>,
          <<"crds_3d_1_c", v.crds_3d_1_c>>,
          <<"to_keep_1_c", v.to_keep_1_c>>,
          <<"atom_id_1_d", v.atom_id_1_d>>,
          <<"ring_id_1_d", v.ring_id_1_d>>,
          <<"hybr_id_1_d", v.hybr_id_1_d>>,
          <<"arom_id_1_d", v.arom_id_1_d>>,
          <<"edge_2d_1_d", v.edge_2d_1_d>>,
          <<"edge_3d_1_d", v.edge_3d_1_d>>,
          <<"crds_3d_1_d", v.crds_3d_1_d>>,
          <<"to_keep_1_d", v.to_keep_1_d>>,
          <<"atom_id_1_e", v.atom_id_1_e>>,
          <<"ring_id_1_e", v.ring_id_1_e>>,
          <<"hybr_id_1_e", v.hybr_id_1_e>>,
          <<"arom_id_1_e", v.arom_id_1_e>>,
          <<"edge_2d_1_e", v.edge_2d_1_e>>,
          <<"edge_3d_1_e", v.edge_3d_1_e>>,
          <<"crds_3d_1_e", v.crds_3d_1_e>>,
          <<"to_keep_1_e", v.to_keep_1_e>>>>

CarbacidsCalls == <<61450, 61451, 61452, 61453, 61454>>

CarbacidsVars(smi) ==
    LET a == get_3dG_from_smi(smi, CarbacidsCalls[1])
        b == get_3dG_from_smi(smi, CarbacidsCalls[2])
        c == get_3dG_from_smi(smi, CarbacidsCalls[3])
        d == get_3dG_from_smi(smi, CarbacidsCalls[4])
        e == get_3dG_from_smi(smi, CarbacidsCalls[5])
    IN  [atom_id_2_a |-> a[1],
         ring_id_2_a |-> a[2],
         hybr_id_2_a |-> a[3],
         arom_id_2_a |-> a[4],
         edge_2d_2_a |-> a[5],
         edge_3d_2_a |-> a[6],
         crds_3d_2_a |-> a[7],
         to_keep_2_a |-> a[8],
         atom_id_2_b |-> b[1],
         ring_id_2_b |-> b[2],
         hybr_id_2_b |-> b[3],
         arom_id_2_b |-> b[4],
         edge_2d_2_b |-> b[5],
         edge_3d_2_b |-> b[6],
         crds_3d_2_b |-> b[7],
         to_keep_2_b |-> b[8],
         atom_id_2_c |-> c[1],
         ring_id_2_c |-> c[2],
         hybr_id_2_c |-> c[3],
         arom_id_2_c |-> c[4],
         edge_2d_2_c |-> c[5],
         edge_3d_2_c |-> c[6],
         crds_3d_2_c |-> c[7],
         to_keep_2_c |-> c[8],
         atom_id_2_d |-> d[1],
         ring_id_2_d |-> d[2],
         hybr_id_2_d |-> d[3],
         arom_id_2_d |-> d[4],
         edge_2d_2_d |-> d[5],
         edge_3d_2_d |-> d[6],
         crds_3d_2_d |-> d[7],
         to_keep_2_d |-> d[8],
         atom_id_2_e |-> e[1],
         ring_id_2_e |-> e[2],
         hybr_id_2_e |-> e[3],
         arom_id_2_e |-> e[4],
         edge_2d_2_e |-> e[5],
         edge_3d_2_e |-> e[6],
         crds_3d_2_e |-> e[7],
         to_keep_2_e |-> e[8]]

CarbacidsWrites(smi) ==
    LET v == CarbacidsVars(smi)
    IN  <<<<"atom_id_2_a", v.atom_id_2_a>>,
          <<"ring_id_2_a", v.ring_id_2_a>>,
          <<"hybr_id_2_a", v.hybr_id_2_a>>,
          <<"arom_id_2_a", v.arom_id_2_a>>,
          <<"edge_2d_2_a", v.edge_2d_2_a>>,
          <<"edge_3d_2_a", v.edge_3d_2_a>>,
          <<"crds_3d_2_a", v.crds_3d_2_a>>,
          <<"atom_id_2_b", v.atom_id_2_b>>,
          <<"ring_id_2_b", v.ring_id_2_b>>,
          <<"hybr_id_2_b", v.hybr_id_2_b>>,
          <<"arom_id_2_b", v.arom_id_2_b>>,
          <<"edge_2d_2_b", v.edge_2d_2_b>>,
          <<"edge_3d_2_b", v.edge_3d_2_b>>,
          <<"crds_3d_2_b", v.crds_3d_2_b>>,
          <<"atom_id_2_c", v.atom_id_2_c>>,
          <<"ring_id_2_c", v.ring_id_2_c>>,
          <<"hybr_id_2_c", v.hybr_id_2_c>>,
          <<"arom_id_2_c", v.arom_id_2_c>>,
          <<"edge_2d_2_c", v.edge_2d_2_c>>,
          <<"edge_3d_2_c", v.edge_3d_2_c>>,
          <<"crds_3d_2_c", v.crds_3d_2_c>>,
          <<"atom_id_2_d", v.atom_id_2_d>>,
          <<"ring_id_2_d", v.ring_id_2_d>>,
          <<"hybr_id_2_d", v.hybr_id_2_d>>,
          <<"arom_id_2_d", v.arom_id_2_d>>,
          <<"edge_2d_2_d", v.edge_2d_2_d>>,
          <<"edge_3d_2_d", v.edge_3d_2_d>>,
          <<"crds_3d_2_d", v.crds_3d_2_d>>,
          <<"atom_id_2_e", v.atom_id_2_e>>,
          <<"ring_id_2_e", v.ring_id_2_e>>,
          <<"hybr_id_2_e", v.hybr_id_2_e>>,
          <<"arom_id_2_e", v.arom_id_2_e>>,
          <<"edge_2d_2_e", v.edge_2d_2_e>>,
          <<"edge_3d_2_e", v.edge_3d_2_e>>,
          <<"crds_3d_2_e", v.crds_3d_2_e>>>>

(***************************************************************************)
(* The state of a run of the script, and of a call of the featurizer.      *)
(***************************************************************************)
VARIABLES
    pc,                     \* the statement of Program the run is at
    err,                    \* the exception that ended the run, or "none"
    lists,                  \* the column lists taken from the table
    dicts,                  \* rea_dict, so1_dict, ..., atm_dict
    product_all,            \* the combined target of each row
    startingmat_1_unique,   \* list(set(startingmat_1_smiles))
    startingmat_2_unique,   \* list(set(startingmat_2_smiles))
    rxn_smi_dict,           \* rxn_id -> [smiles 1, smiles 2]
    pt,                     \* the two torch.save artifacts on disk
    h5,                     \* the three h5py containers on disk
    opened,                 \* the container the run holds open for writing
    idx,                    \* the loop's position in the list it walks
    calls,                  \* the calls of get_3dG_from_smi made so far
    events,                 \* the file creations and writes made so far
    fpc,                    \* get_3dG_from_smi: where the call is
    bonds,                  \* get_3dG_from_smi: mol.GetBonds(), as (begin, end)
    crds_3d,                \* get_3dG_from_smi: the conformer's positions
    edge_2d,                \* get_3dG_from_smi: the bond edges returned
    edge_3d                 \* get_3dG_from_smi: the proximity edges returned

runvars ==
    <<pc, err, lists, dicts, product_all, startingmat_1_unique,
      startingmat_2_unique, rxn_smi_dict, pt, h5, opened, idx, calls, events>>

featvars == <<fpc, bonds, crds_3d, edge_2d, edge_3d>>

vars == <<runvars, featvars>>

\* Program with the vocabulary artifact saved before the table is read.
ProgramSavingFirst ==
    <<"save_cond_dicts", "read_csv", "get_dicts", "unique",
      "save_rxn_smi_dict", "substrate", "carbacids", "conditions">>

\* Program with the acid container written before the substrate container.
ProgramAcidsFirst ==
    <<"read_csv", "get_dicts", "save_cond_dicts", "unique",
      "save_rxn_smi_dict", "carbacids", "substrate", "conditions">>

\* The statements of the script's main block, in the order they run.
Program ==
    <<"read_csv", "get_dicts", "save_cond_dicts", "unique",
      "save_rxn_smi_dict", "substrate", "carbacids", "conditions">>

At(stmt) == err = "none" /\ pc \in DOMAIN Program /\ Program[pc] = stmt

Done == err = "none" /\ pc = Len(Program) + 1

Failed == err # "none"

Init ==
    /\ pc = 1
    /\ err = "none"
    /\ lists = <<>>
    /\ dicts = <<>>
    /\ product_all = <<>>
    /\ startingmat_1_unique = <<>>
    /\ startingmat_2_unique = <<>>
    /\ rxn_smi_dict = <<>>
    /\ pt = [cond_dicts |-> [saved |-> FALSE, data |-> <<>>],
             rxn_smi_dict |-> [saved |-> FALSE, data |-> <<>>]]
    /\ h5 = [substrate |-> NoFile, carbacids |-> NoFile, conditions |-> NoFile]
    /\ opened = "none"
    /\ idx = 0
    /\ calls = <<>>
    /\ events = <<>>
    /\ fpc = "idle"
    /\ bonds = <<>>
    /\ crds_3d = <<>>
    /\ edge_2d = <<>>
    /\ edge_3d = <<>>

\* Lines 101-134: read the table and take its columns as lists, the text
\* columns through str.  df[name] raises KeyError for a column the table
\* lacks.
ReadCsv ==
    /\ At("read_csv")
    /\ \E header \in Headers :
          IF RequiredColumns \subseteq header
          THEN \E df \in Tables :
                  /\ lists' = [col \in RequiredColumns |->
                                  [i \in DOMAIN df |->
                                      IF col \in StrColumns
                                      THEN str(df[i][col])
                                      ELSE df[i][col]]]
                  /\ pc' = pc + 1
                  /\ err' = err
          ELSE /\ err' = "SchemaError"
               /\ UNCHANGED <<lists, pc>>
    /\ UNCHANGED <<dicts, product_all, startingmat_1_unique,
                   startingmat_2_unique, rxn_smi_dict, pt, h5, opened, idx,
                   calls, events, featvars>>

\* Lines 138-164: the six vocabularies and the combined target.
GetDicts ==
    /\ At("get_dicts")
    /\ dicts' = [rea_dict |-> get_dict_for_embedding(lists.reagent_1_smiles),
                 so1_dict |-> get_dict_for_embedding(lists.solvent_1_smiles),
                 so2_dict |-> get_dict_for_embedding(lists.solvent_2_smiles),
                 cat_dict |-> get_dict_for_embedding(lists.catalyst_1_smiles),
                 add_dict |-> get_dict_for_embedding(lists.additive_1_smiles),
                 atm_dict |-> get_dict_for_embedding(lists.atmosphere)]
    /\ product_all' = [i \in DOMAIN lists.product_mono |->
                          lists.product_mono[i] + lists.product_di[i]]
    /\ pc' = pc + 1
    /\ UNCHANGED <<err, lists, startingmat_1_unique, startingmat_2_unique,
                   rxn_smi_dict, pt, h5, opened, idx, calls, events, featvars>>

\* Lines 166-167: torch.save(cond_dicts, ...).
SaveCondDicts ==
    /\ At("save_cond_dicts")
    /\ pt' = [pt EXCEPT !.cond_dicts = [saved |-> TRUE, data |-> dicts]]
    /\ events' = Append(events, [op |-> "save", file |-> "cond_dicts"])
    /\ pc' = pc + 1
    /\ UNCHANGED <<err, lists, dicts, product_all, startingmat_1_unique,
                   startingmat_2_unique, rxn_smi_dict, h5, opened, idx, calls,
                   featvars>>

\* Lines 170-171: the unique reactants of each role, in some order.
Unique ==
    /\ At("unique")
    /\ startingmat_1_unique' \in ListOfSet(Range(lists.startingmat_1_smiles))
    /\ startingmat_2_unique' \in ListOfSet(Range(lists.startingmat_2_smiles))
    /\ pc' = pc + 1
    /\ UNCHANGED <<err, lists, dicts, product_all, rxn_smi_dict, pt, h5,
                   opened, idx, calls, events, featvars>>

\* Lines 177-181: the reaction-id lookup (a later row of the same id
\* overwrites an earlier one) and its torch.save.
SaveRxnSmiDict ==
    LET rxn_id == lists.rxn_id
        last(rxn) == CHOOSE i \in DOMAIN rxn_id :
                        /\ rxn_id[i] = rxn
                        /\ \A j \in DOMAIN rxn_id : rxn_id[j] = rxn => j <= i
        d == [rxn \in Range(rxn_id) |->
                 <<lists.startingmat_1_smiles[last(rxn)],
                   lists.startingmat_2_smiles[last(rxn)]>>]
    IN  /\ At("save_rxn_smi_dict")
        /\ rxn_smi_dict' = d
        /\ pt' = [pt EXCEPT !.rxn_smi_dict = [saved |-> TRUE, data |-> d]]
        /\ events' = Append(events, [op |-> "save", file |-> "rxn_smi_dict"])
        /\ pc' = pc + 1
        /\ UNCHANGED <<err, lists, dicts, product_all, startingmat_1_unique,
                       startingmat_2_unique, h5, opened, idx, calls, featvars>>

\* with h5py.File(name, "w") as container: the file is created empty and the
\* loop starts.
Open(file) ==
    /\ At(file)
    /\ opened = "none"
    /\ h5' = [h5 EXCEPT ![file] = NewFile]
    /\ opened' = file
    /\ idx' = 1
    /\ events' = Append(events, [op |-> "create", file |-> file])
    /\ UNCHANGED <<pc, err, lists, dicts, product_all, startingmat_1_unique,
                   startingmat_2_unique, rxn_smi_dict, pt, calls, featvars>>

\* The end of the with block once the list is walked: the file is closed,
\* reopened for its key count, and the next statement follows.
Close(file, list) ==
    /\ At(file)
    /\ opened = file
    /\ idx > Len(list)
    /\ opened' = "none"
    /\ pc' = pc + 1
    /\ UNCHANGED <<err, lists, dicts, product_all, startingmat_1_unique,
                   startingmat_2_unique, rxn_smi_dict, pt, h5, idx, calls,
                   events, featvars>>

\* An exception leaves the with block, which closes the file, and ends the
\* run.
Abort(exception) ==
    /\ err' = exception
    /\ opened' = "none"
    /\ UNCHANGED <<pc, h5, idx, events>>

\* One pass of a reactant loop: the five calls of the featurizer in turn, the
\* first that raises ending the run; then the molecule's group and its
\* datasets.
Featurize(file, list, seeds, writes) ==
    LET smi == list[idx]
        raising == {n \in DOMAIN seeds : Raises(smi, seeds[n]) # "none"}
        made == IF raising = {} THEN Len(seeds)
                ELSE CHOOSE n \in raising : \A m \in raising : n <= m
    IN  /\ At(file)
        /\ opened = file
        /\ idx <= Len(list)
        /\ calls' = calls \o [n \in 1..made |->
                                 [file |-> file, smi |-> smi, seed |-> seeds[n]]]
        /\ IF raising # {}
           THEN Abort(Raises(smi, seeds[made]))
           ELSE IF NameExists(h5[file], smi)
           THEN Abort("ValueError")
           ELSE /\ h5' = [h5 EXCEPT ![file] =
                             create_datasets(create_group(@, smi), smi, writes)]
                /\ idx' = idx + 1
                /\ events' = Append(events, [op |-> "write", file |-> file])
                /\ UNCHANGED <<pc, err, opened>>
        /\ UNCHANGED <<lists, dicts, product_all, startingmat_1_unique,
                       startingmat_2_unique, rxn_smi_dict, pt, featvars>>

\* Lines 186-295.
OpenSubstrate == Open("substrate")

SubstrateMol ==
    /\ idx \in DOMAIN startingmat_1_unique
    /\ Featurize("substrate", startingmat_1_unique, SubstrateCalls,
                 SubstrateWrites(startingmat_1_unique[idx]))

CloseSubstrate == Close("substrate", startingmat_1_unique)

\* Lines 301-404.
OpenCarbacids == Open("carbacids")

CarbacidsMol ==
    /\ idx \in DOMAIN startingmat_2_unique
    /\ Featurize("carbacids", startingmat_2_unique, CarbacidsCalls,
                 CarbacidsWrites(startingmat_2_unique[idx]))

CloseCarbacids == Close("carbacids", startingmat_2_unique)

\* LookupKeys with the reagent vocabulary asked for the solvent's name.
LookupKeysCrossed(i) ==
    [rea_dict |-> lists.solvent_1_smiles[i],
     so1_dict |-> lists.solvent_1_smiles[i],
     so2_dict |-> lists.solvent_2_smiles[i],
     cat_dict |-> lists.catalyst_1_smiles[i],
     add_dict |-> lists.additive_1_smiles[i],
     atm_dict |-> lists.atmosphere[i]]

\* Lines 424-429: the key each vocabulary is asked for at row i.
LookupKeys(i) ==
    [rea_dict |-> lists.reagent_1_smiles[i],
     so1_dict |-> lists.solvent_1_smiles[i],
     so2_dict |-> lists.solvent_2_smiles[i],
     cat_dict |-> lists.catalyst_1_smiles[i],
     add_dict |-> lists.additive_1_smiles[i],
     atm_dict |-> lists.atmosphere[i]]

\* Lines 440-464: the datasets of row i's group.
ConditionsWrites(i) ==
    LET key == LookupKeys(i)
    IN  << <<"ecfp4_2_1", get_fp_from_smi(lists.startingmat_1_smiles[i])>>,
           <<"ecfp4_2_2", get_fp_from_smi(lists.startingmat_2_smiles[i])>>,
           <<"rgt_eq", Num(lists.reagent_1_eq[i])>>,
           <<"sm2_eq", Num(lists.startingmat_2_eq[i])>>,
           <<"conc_m", Num(lists.concentration_mmol_l[i])>>,
           <<"tmp_de", Num(lists.temperature_deg_c[i])>>,
           <<"hours_", Num(lists.time_h[i])>>,
           <<"scale_", Num(lists.scale_umol[i])>>,
           <<"cat_eq", Num(lists.catalyst_1_eq[i])>>,
           <<"add_eq", Num(lists.additive_1_eq[i])>>,
           <<"sol_f1", Num(lists.solvent_1_fraction[i])>>,
           <<"sol_f2", Num(lists.solvent_2_fraction[i])>>,
           <<"rea_id", Num(dicts.rea_dict[key.rea_dict])>>,
           <<"so1_id", Num(dicts.so1_dict[key.so1_dict])>>,
           <<"so2_id", Num(dicts.so2_dict[key.so2_dict])>>,
           <<"cat_id", Num(dicts.cat_dict[key.cat_dict])>>,
           <<"add_id", Num(dicts.add_dict[key.add_dict])>>,
           <<"atm_id", Num(dicts.atm_dict[key.atm_dict])>>,
           <<"trg_yld", Num(product_all[i])>>,
           <<"trg_bin", Num(lists.binary[i])>> >>

\* Lines 408-467.
OpenConditions == Open("conditions")

\* One pass of the reaction loop (lines 409-464): the six lookups, a miss
\* raising KeyError; the two fingerprints; the row's group and datasets.
ConditionsRow ==
    LET rxn_key == lists.rxn_id[idx]
        key == LookupKeys(idx)
        miss == \E d \in DOMAIN key : key[d] \notin DOMAIN dicts[d]
        unparsed == \E c \in {"startingmat_1_smiles", "startingmat_2_smiles"} :
                       MolFromSmiles(lists[c][idx]) = "None"
    IN  /\ At("conditions")
        /\ opened = "conditions"
        /\ idx <= Len(lists.rxn_id)
        /\ IF miss
           THEN Abort("VocabularyMissError")
           ELSE IF unparsed
           THEN Abort("ParseError")
           ELSE IF NameExists(h5.conditions, rxn_key)
           THEN Abort("ValueError")
           ELSE /\ h5' = [h5 EXCEPT !.conditions =
                             create_datasets(create_group(@, rxn_key), rxn_key,
                                             ConditionsWrites(idx))]
                /\ idx' = idx + 1
                /\ events' = Append(events, [op |-> "write", file |-> "conditions"])
                /\ UNCHANGED <<pc, err, opened>>
        /\ UNCHANGED <<lists, dicts, product_all, startingmat_1_unique,
                       startingmat_2_unique, rxn_smi_dict, pt, calls, featvars>>

CloseConditions == Close("conditions", lists.rxn_id)

Next ==
    \/ ReadCsv
    \/ GetDicts
    \/ SaveCondDicts
    \/ Unique
    \/ SaveRxnSmiDict
    \/ OpenSubstrate
    \/ SubstrateMol
    \/ CloseSubstrate
    \/ OpenCarbacids
    \/ CarbacidsMol
    \/ CloseCarbacids
    \/ OpenConditions
    \/ ConditionsRow
    \/ CloseConditions

Spec == Init /\ [][Next]_vars

(***************************************************************************)
(* get_3dG_from_smi, lines 69-85: the two edge lists, computed from the    *)
(* molecule's bonds and the conformer's positions.  Atoms are numbered     *)
(* from 0 as in the source; positions are points of the integer lattice    *)
(* and the distance matrix holds squared distances, so that d <= 4 reads   *)
(* d2 <= 4 * 4.                                                            *)
(***************************************************************************)
Points == {<<0, 0, 0>>, <<4, 0, 0>>, <<0, 3, 4>>, <<1, 2, 2>>}

\* float("inf"), as an entry of the distance matrix; below no distance.
Inf == -1

\* The threshold of line 85.
Cutoff == 4

Atoms(crds) == 0..(Len(crds) - 1)

\* The bond lists a molecule of n atoms may have: each bond joins two
\* distinct atoms, in either direction, and no two bonds join the same pair.
BondLists(n) ==
    {b \in UNION {[1..m -> (0..(n - 1)) \X (0..(n - 1))] : m \in 0..MaxBonds} :
        /\ \A k \in DOMAIN b : b[k][1] # b[k][2]
        /\ \A k, l \in DOMAIN b :
              {b[k][1], b[k][2]} = {b[l][1], b[l][2]} => k = l}

\* Lines 70-78: the loop over mol.GetBonds().
RECURSIVE bond_loop(_, _, _, _)
bond_loop(bs, k, edge_dir1, edge_dir2) ==
    IF k > Len(bs) THEN <<edge_dir1, edge_dir2>>
    ELSE LET a2 == bs[k][2]
             a1 == bs[k][1]
         IN  bond_loop(bs, k + 1,
                       Append(Append(edge_dir1, a1), a2),
                       Append(Append(edge_dir2, a2), a1))

\* The loop with each bond entered in one direction only.
RECURSIVE bond_loop_one_way(_, _, _, _)
bond_loop_one_way(bs, k, edge_dir1, edge_dir2) ==
    IF k > Len(bs) THEN <<edge_dir1, edge_dir2>>
    ELSE bond_loop_one_way(bs, k + 1, Append(edge_dir1, bs[k][1]),
                           Append(edge_dir2, bs[k][2]))

bond_edges_one_way(bs) == bond_loop_one_way(bs, 1, <<>>, <<>>)

\* Lines 70-80: edge_2d, the two lists stacked.
bond_edges(bs) == bond_loop(bs, 1, <<>>, <<>>)

\* squareform(pdist(crds_3d)), squared.
pdist2(p, q) ==
    (p[1] - q[1]) * (p[1] - q[1]) + (p[2] - q[2]) * (p[2] - q[2])
        + (p[3] - q[3]) * (p[3] - q[3])

squareform(crds) ==
    [i \in Atoms(crds) |-> [j \in Atoms(crds) |-> pdist2(crds[i + 1], crds[j + 1])]]

\* fill_diagonal left out: the matrix keeps its zero diagonal.
fill_diagonal_skipped(m, val) == m

\* np.fill_diagonal(distance_matrix, float("inf")).
fill_diagonal(m, val) ==
    [i \in DOMAIN m |-> [j \in DOMAIN m[i] |-> IF i = j THEN val ELSE m[i][j]]]

\* distance_matrix <= 4, for one entry.
WithinCutoff(d2) == d2 # Inf /\ d2 <= Cutoff * Cutoff

\* np.vstack(np.where(cond)): the row and the column indices of the entries
\* that meet cond, in row-major order.
where(m) ==
    LET n == Cardinality(DOMAIN m)
        flat == [k \in 1..(n * n) |-> <<(k - 1) \div n, (k - 1) % n>>]
        hits == SelectSeq(flat, LAMBDA e : WithinCutoff(m[e[1]][e[2]]))
    IN  <<[k \in DOMAIN hits |-> hits[k][1]], [k \in DOMAIN hits |-> hits[k][2]]>>

\* Lines 83-85.
proximity_edges(crds) == where(fill_diagonal(squareform(crds), Inf))

\* Lines 33-67: the molecule parsed, embedded and its atoms walked; what the
\* toolkit hands back is any molecule and conformer within the bounds.
FeatEmbed ==
    /\ fpc = "idle"
    /\ \E n \in 1..MaxAtoms :
          /\ bonds' \in BondLists(n)
          /\ crds_3d' \in [1..n -> Points]
    /\ fpc' = "embedded"
    /\ UNCHANGED <<edge_2d, edge_3d, runvars>>

\* Lines 69-96: the two edge lists, and the return.
FeatEdges ==
    /\ fpc = "embedded"
    /\ edge_2d' = bond_edges(bonds)
    /\ edge_3d' = proximity_edges(crds_3d)
    /\ fpc' = "returned"
    /\ UNCHANGED <<bonds, crds_3d, runvars>>

NextFeat == FeatEmbed \/ FeatEdges

SpecFeat == Init /\ [][NextFeat]_vars

(***************************************************************************)
(* The claims.                                                             *)
(***************************************************************************)
Containers == {"substrate", "carbacids", "conditions"}

Sections(file) == DOMAIN h5[file].groups

\* The events of one kind made so far.
Count(op, file) ==
    Cardinality({n \in DOMAIN events : events[n] = [op |-> op, file |-> file]})

\* The seeds the spec names, 0xF00A .. 0xF00E, in order.
NamedSeeds == <<61450, 61451, 61452, 61453, 61454>>

\* The arrays the spec names for a substrate: 8 features under 5 suffixes,
\* each with the seed and the part of the featurizer's result it stands for.
SubstrateArrays ==
    { [name |-> "atom_id_1_a", seed |-> 61450, out |-> "atom_id"],
      [name |-> "ring_id_1_a", seed |-> 61450, out |-> "ring_id"],
      [name |-> "hybr_id_1_a", seed |-> 61450, out |-> "hybr_id"],
      [name |-> "arom_id_1_a", seed |-> 61450, out |-> "arom_id"],
      [name |-> "edge_2d_1_a", seed |-> 61450, out |-> "edge_2d"],
      [name |-> "edge_3d_1_a", seed |-> 61450, out |-> "edge_3d"],
      [name |-> "crds_3d_1_a", seed |-> 61450, out |-> "crds_3d"],
      [name |-> "to_keep_1_a", seed |-> 61450, out |-> "to_keep"],
      [name |-> "atom_id_1_b", seed |-> 61451, out |-> "atom_id"],
      [name |-> "ring_id_1_b", seed |-> 61451, out |-> "ring_id"],
      [name |-> "hybr_id_1_b", seed |-> 61451, out |-> "hybr_id"],
      [name |-> "arom_id_1_b", seed |-> 61451, out |-> "arom_id"],
      [name |-> "edge_2d_1_b", seed |-> 61451, out |-> "edge_2d"],
      [name |-> "edge_3d_1_b", seed |-> 61451, out |-> "edge_3d"],
      [name |-> "crds_3d_1_b", seed |-> 61451, out |-> "crds_3d"],
      [name |-> "to_keep_1_b", seed |-> 61451, out |-> "to_keep"],
      [name |-> "atom_id_1_c", seed |-> 61452, out |-> "atom_id"],
      [name |-> "ring_id_1_c", seed |-> 61452, out |-> "ring_id"],
      [name |-> "hybr_id_1_c", seed |-> 61452, out |-> "hybr_id"],
      [name |-> "arom_id_1_c", seed |-> 61452, out |-> "arom_id"],
      [name |-> "edge_2d_1_c", seed |-> 61452, out |-> "edge_2d"],
      [name |-> "edge_3d_1_c", seed |-> 61452, out |-> "edge_3d"],
      [name |-> "crds_3d_1_c", seed |-> 61452, out |-> "crds_3d"],
      [name |-> "to_keep_1_c", seed |-> 61452, out |-> "to_keep"],
      [name |-> "atom_id_1_d", seed |-> 61453, out |-> "atom_id"],
      [name |-> "ring_id_1_d", seed |-> 61453, out |-> "ring_id"],
      [name |-> "hybr_id_1_d", seed |-> 61453, out |-> "hybr_id"],
      [name |-> "arom_id_1_d", seed |-> 61453, out |-> "arom_id"],
      [name |-> "edge_2d_1_d", seed |-> 61453, out |-> "edge_2d"],
      [name |-> "edge_3d_1_d", seed |-> 61453, out |-> "edge_3d"],
      [name |-> "crds_3d_1_d", seed |-> 61453, out |-> "crds_3d"],
      [name |-> "to_keep_1_d", seed |-> 61453, out |-> "to_keep"],
      [name |-> "atom_id_1_e", seed |-> 61454, out |-> "atom_id"],
      [name |-> "ring_id_1_e", seed |-> 61454, out |-> "ring_id"],
      [name |-> "hybr_id_1_e", seed |-> 61454, out |-> "hybr_id"],
      [name |-> "arom_id_1_e", seed |-> 61454, out |-> "arom_id"],
      [name |-> "edge_2d_1_e", seed |-> 61454, out |-> "edge_2d"],
      [name |-> "edge_3d_1_e", seed |-> 61454, out |-> "edge_3d"],
      [name |-> "crds_3d_1_e", seed |-> 61454, out |-> "crds_3d"],
      [name |-> "to_keep_1_e", seed |-> 61454, out |-> "to_keep"] }

\* The arrays the spec names for an acid: the same without the keep flags.
CarbacidsArrays ==
    { [name |-> "atom_id_2_a", seed |-> 61450, out |-> "atom_id"],
      [name |-> "ring_id_2_a", seed |-> 61450, out |-> "ring_id"],
      [name |-> "hybr_id_2_a", seed |-> 61450, out |-> "hybr_id"],
      [name |-> "arom_id_2_a", seed |-> 61450, out |-> "arom_id"],
      [name |-> "edge_2d_2_a", seed |-> 61450, out |-> "edge_2d"],
      [name |-> "edge_3d_2_a", seed |-> 61450, out |-> "edge_3d"],
      [name |-> "crds_3d_2_a", seed |-> 61450, out |-> "crds_3d"],
      [name |-> "atom_id_2_b", seed |-> 61451, out |-> "atom_id"],
      [name |-> "ring_id_2_b", seed |-> 61451, out |-> "ring_id"],
      [name |-> "hybr_id_2_b", seed |-> 61451, out |-> "hybr_id"],
      [name |-> "arom_id_2_b", seed |-> 61451, out |-> "arom_id"],
      [name |-> "edge_2d_2_b", seed |-> 61451, out |-> "edge_2d"],
      [name |-> "edge_3d_2_b", seed |-> 61451, out |-> "edge_3d"],
      [name |-> "crds_3d_2_b", seed |-> 61451, out |-> "crds_3d"],
      [name |-> "atom_id_2_c", seed |-> 61452, out |-> "atom_id"],
      [name |-> "ring_id_2_c", seed |-> 61452, out |-> "ring_id"],
      [name |-> "hybr_id_2_c", seed |-> 61452, out |-> "hybr_id"],
      [name |-> "arom_id_2_c", seed |-> 61452, out |-> "arom_id"],
      [name |-> "edge_2d_2_c", seed |-> 61452, out |-> "edge_2d"],
      [name |-> "edge_3d_2_c", seed |-> 61452, out |-> "edge_3d"],
      [name |-> "crds_3d_2_c", seed |-> 61452, out |-> "crds_3d"],
      [name |-> "atom_id_2_d", seed |-> 61453, out |-> "atom_id"],
      [name |-> "ring_id_2_d", seed |-> 61453, out |-> "ring_id"],
      [name |-> "hybr_id_2_d", seed |-> 61453, out |-> "hybr_id"],
      [name |-> "arom_id_2_d", seed |-> 61453, out |-> "arom_id"],
      [name |-> "edge_2d_2_d", seed |-> 61453, out |-> "edge_2d"],
      [name |-> "edge_3d_2_d", seed |-> 61453, out |-> "edge_3d"],
      [name |-> "crds_3d_2_d", seed |-> 61453, out |-> "crds_3d"],
      [name |-> "atom_id_2_e", seed |-> 61454, out |-> "atom_id"],
      [name |-> "ring_id_2_e", seed |-> 61454, out |-> "ring_id"],
      [name |-> "hybr_id_2_e", seed |-> 61454, out |-> "hybr_id"],
      [name |-> "arom_id_2_e", seed |-> 61454, out |-> "arom_id"],
      [name |-> "edge_2d_2_e", seed |-> 61454, out |-> "edge_2d"],
      [name |-> "edge_3d_2_e", seed |-> 61454, out |-> "edge_3d"],
      [name |-> "crds_3d_2_e", seed |-> 61454, out |-> "crds_3d"] }

\* The fields the spec names for a reaction: 2 fingerprints, 8 numeric
\* conditions, 6 categorical ids, 2 targets.
ConditionsFields ==
    {"ecfp4_2_1", "ecfp4_2_2"}
        \cup {"rgt_eq", "sm2_eq", "conc_m", "tmp_de", "hours_", "scale_",
              "cat_eq", "add_eq", "sol_f1", "sol_f2"}
        \cup {"rea_id", "so1_id", "so2_id", "cat_id", "add_id", "atm_id"}
        \cup {"trg_yld", "trg_bin"}

\* C1: while the three containers are filled, no group is created for a key
\* the container holds already: create_group never raises for an existing
\* name, whatever the table.
C1_NoKeyCollision == err # "ValueError"

\* C2: a run that fails for a missing column has created no file and
\* written nothing: neither artifact is saved and no container exists.
C2_SchemaErrorBeforeAnyOutput ==
    err = "SchemaError" =>
        /\ events = <<>>
        /\ ~pt.cond_dicts.saved
        /\ ~pt.rxn_smi_dict.saved
        /\ \A file \in Containers : ~h5[file].exists

\* C2's case: a table that lacks a column has been read.
C2_Witness == err = "SchemaError" /\ pc = 1

\* C4: in the encoding phase every one of the six lookups of every row finds
\* its key in its vocabulary, and no run ends in a vocabulary miss.
C4_LookupsNeverMiss ==
    /\ err # "VocabularyMissError"
    /\ opened = "conditions" =>
          \A i \in DOMAIN lists.rxn_id :
             \A d \in DOMAIN dicts : LookupKeys(i)[d] \in DOMAIN dicts[d]

\* C4's case: a row whose second solvent was an empty cell has been encoded
\* and written, next to a row with another reagent.
C4_Witness ==
    /\ opened = "conditions"
    /\ idx = 3
    /\ lists.solvent_2_smiles[1] = <<"nan">>
    /\ lists.reagent_1_smiles[1] # lists.reagent_1_smiles[2]

\* The place of an output event in the order of the phases.
Rank(e) ==
    CASE e = [op |-> "save", file |-> "cond_dicts"] -> 1
      [] e = [op |-> "save", file |-> "rxn_smi_dict"] -> 2
      [] e = [op |-> "create", file |-> "substrate"] -> 3
      [] e = [op |-> "write", file |-> "substrate"] -> 4
      [] e = [op |-> "create", file |-> "carbacids"] -> 5
      [] e = [op |-> "write", file |-> "carbacids"] -> 6
      [] e = [op |-> "create", file |-> "conditions"] -> 7
      [] e = [op |-> "write", file |-> "conditions"] -> 8

\* C5: the outputs are made phase by phase: the vocabulary artifact, then the
\* lookup artifact, then the substrate container and all its writes, then the
\* acid container and all its writes, then the reaction container; a phase
\* has written every item of its list before the next container is created,
\* and no artifact or container is made twice.
C5_PhasesInOrder ==
    /\ \A m, n \in DOMAIN events :
          m < n => /\ Rank(events[m]) <= Rank(events[n])
                   /\ events[m] = events[n] => events[m].op = "write"
    /\ pt.rxn_smi_dict.saved => pt.cond_dicts.saved
    /\ \A file \in Containers : h5[file].exists <=> Count("create", file) = 1
    /\ h5.substrate.exists => pt.rxn_smi_dict.saved
    /\ h5.carbacids.exists =>
          /\ opened # "substrate"
          /\ Count("write", "substrate") = Len(startingmat_1_unique)
    /\ h5.conditions.exists =>
          /\ h5.carbacids.exists
          /\ opened # "carbacids"
          /\ Count("write", "carbacids") = Len(startingmat_2_unique)

\* C5's case: a run that went through all phases and wrote to each container.
C5_Witness ==
    /\ Done
    /\ \A file \in Containers : Count("write", file) >= 1

\* C6: after a run without error the substrate container's sections are the
\* distinct first reactants, each with exactly the 40 arrays, and the acid
\* container's sections are the distinct second reactants, each with exactly
\* the 35 arrays.
C6_OneSectionPerReactant ==
    Done =>
        /\ Sections("substrate") = Range(lists.startingmat_1_smiles)
        /\ \A g \in Sections("substrate") :
              /\ Len(h5.substrate.groups[g]) = 40
              /\ Names(h5.substrate, g) = {a.name : a \in SubstrateArrays}
        /\ Sections("carbacids") = Range(lists.startingmat_2_smiles)
        /\ \A g \in Sections("carbacids") :
              /\ Len(h5.carbacids.groups[g]) = 35
              /\ Names(h5.carbacids, g) = {a.name : a \in CarbacidsArrays}

\* C7: after a run without error the reaction container's sections are the
\* reaction ids of the table, each with exactly the 20 fields.
C7_OneSectionPerReaction ==
    Done =>
        /\ Sections("conditions") = Range(lists.rxn_id)
        /\ \A g \in Sections("conditions") :
              /\ Len(h5.conditions.groups[g]) = 20
              /\ Names(h5.conditions, g) = ConditionsFields

\* The seeds the featurizer was called with for a molecule of a container.
SeedsUsed(file, smi) ==
    LET mine == SelectSeq(calls, LAMBDA c : c.file = file /\ c.smi = smi)
    IN  [n \in DOMAIN mine |-> mine[n].seed]

\* Every dataset of the container is one of the named arrays and holds the
\* result of the call for its own molecule under its suffix's seed.
RightArrays(file, arrays) ==
    \A g \in Sections(file) :
       Range(h5[file].groups[g]) \subseteq
           {<<a.name, [smi |-> g, seed |-> a.seed, out |-> a.out]>> : a \in arrays}

\* The reactant list a container is filled from.
Reactants(file) ==
    IF file = "substrate" THEN startingmat_1_unique ELSE startingmat_2_unique

ProximityPairs == {<<edge_3d[1][k], edge_3d[2][k]>> : k \in DOMAIN edge_3d[1]}

\* The squared distance of two atoms of the conformer.
Distance2(i, j) ==
    LET p == crds_3d[i + 1]
        q == crds_3d[j + 1]
    IN  (p[1] - q[1]) * (p[1] - q[1]) + (p[2] - q[2]) * (p[2] - q[2])
            + (p[3] - q[3]) * (p[3] - q[3])

\* C9: the proximity edges returned are exactly the ordered pairs of distinct
\* atoms at distance at most 4: both directions of each, and no self-pair.
C9_ProximityEdges ==
    fpc = "returned" =>
        /\ Len(edge_3d[1]) = Len(edge_3d[2])
        /\ \A i, j \in Atoms(crds_3d) :
              <<i, j>> \in ProximityPairs <=> (i # j /\ Distance2(i, j) <= 16)
        /\ ProximityPairs \subseteq Atoms(crds_3d) \X Atoms(crds_3d)

\* C9's case: a conformer with two atoms at distance exactly 4, which are
\* joined both ways, and two further apart, which are not.
C9_Witness ==
    /\ fpc = "returned"
    /\ \E i, j \in Atoms(crds_3d) :
          /\ Distance2(i, j) = 16
          /\ {<<i, j>>, <<j, i>>} \subseteq ProximityPairs
    /\ \E i, j \in Atoms(crds_3d) :
          Distance2(i, j) > 16 /\ <<i, j>> \notin ProximityPairs

\* The arcs of the bond-edge output.
BondArcs == {<<edge_2d[1][k], edge_2d[2][k]>> : k \in DOMAIN edge_2d[1]}

\* C10: the bond edges returned hold both arcs of every bond, two entries per
\* bond, and every entry is an arc of a bond.
C10_BondEdges ==
    fpc = "returned" =>
        /\ Len(edge_2d[1]) = 2 * Len(bonds)
        /\ Len(edge_2d[2]) = 2 * Len(bonds)
        /\ \A k \in DOMAIN bonds :
              /\ <<bonds[k][1], bonds[k][2]>> \in BondArcs
              /\ <<bonds[k][2], bonds[k][1]>> \in BondArcs
        /\ \A k \in DOMAIN edge_2d[1] :
              \E b \in DOMAIN bonds :
                 <<edge_2d[1][k], edge_2d[2][k]>>
                     \in {<<bonds[b][1], bonds[b][2]>>, <<bonds[b][2], bonds[b][1]>>}

\* C10's case: a molecule with two bonds, one of them listed from the higher
\* atom to the lower.
C10_Witness ==
    /\ fpc = "returned"
    /\ Len(bonds) = 2
    /\ \E k \in DOMAIN bonds : bonds[k][1] > bonds[k][2]

\* The container whose loop a featurizer call ended, if one did.
FailedIn(file) ==
    /\ err \in {"ParseError", "EmbeddingError"}
    /\ pc \in DOMAIN Program
    /\ Program[pc] = file

\* The arrays named for the molecules of a container.
ArraysOf(file) ==
    IF file = "substrate" THEN SubstrateArrays ELSE CarbacidsArrays

\* C11: in the substrate and acid phases the five calls for a molecule are
\* made before its section is created; and once a call has raised, the
\* container has no section for the failing descriptor, no call was made for
\* any descriptor after it, and every section of the container is a
\* descriptor processed before, holding all of its 40 (35) arrays.
C11_NoSectionOnFailedFeaturization ==
    \A file \in {"substrate", "carbacids"} :
       /\ \A n \in DOMAIN Reactants(file) :
             Reactants(file)[n] \in Sections(file) =>
                SeedsUsed(file, Reactants(file)[n]) = NamedSeeds
       /\ FailedIn(file) =>
             /\ Reactants(file)[idx] \notin Sections(file)
             /\ \A n \in DOMAIN calls :
                   calls[n].file = file =>
                      \E m \in 1..idx : calls[n].smi = Reactants(file)[m]
             /\ \A g \in Sections(file) :
                   /\ \E m \in 1..(idx - 1) : g = Reactants(file)[m]
                   /\ Len(h5[file].groups[g]) = Cardinality(ArraysOf(file))
                   /\ Names(h5[file], g) = {a.name : a \in ArraysOf(file)}

====
